---------------------------- MODULE Spec2Model ----------------------------
(***************************************************************************)
(* A model of sync_prod_to_gcp: the planner make_todos (make_todos.py),    *)
(* which turns a publish log into a list of sync actions, and the          *)
(* threaded engine of sync_published_to_gcp.py, which ensures PDFs exist   *)
(* and uploads files to a bucket.                                          *)
(*                                                                         *)
(* Text is modelled by tokens.  A path is the sequence of its "/"          *)
(* separated components, with the extensions of the file name as separate  *)
(* tokens (".tar", ".gz"), so "/data/ftp/arxiv/papers/2201/2201.00001.abs" *)
(* is <<"data","ftp","arxiv","papers","2201","2201.00001",".abs">>.  An    *)
(* empty component "" stands for a doubled slash.  An identifier string is *)
(* its "/" separated parts followed, when it has a version, by "v" and the *)
(* digits: "2201.00001v2" is <<"2201.00001","v","2">>.  String             *)
(* concatenation is \o on the token sequences.                             *)
(*                                                                         *)
(* A log line is a record [k, a, b]: k names which of the planner's        *)
(* regular expressions the line can match, a and b are the texts the       *)
(* expression would capture.                                               *)
(***************************************************************************)
EXTENDS Naturals, Sequences, FiniteSets, Bags, TLC

---------------------------------------------------------------------------
(* Bounds of the model *)

\* log entries (one line, or the lines of one multi-line marker) written
\* to a log, not counting start and end lines
MaxEntries == 3
\* pieces (blocks, open blocks, stray lines) of a log written piece by piece
MaxPieces == 2
\* build threads started for each host of ENSURE_HOSTS
ThreadsPerHost == 1
\* upload threads
NumUploadThreads == 2
\* iterations of the poll loop that fit in PDF_WAIT_SEC
MaxPollTicks == 0
\* requests to a web host or to the bucket that fail during one run
MaxFaults == 1
MaxTodo == 3

---------------------------------------------------------------------------
(* Program constants *)

FTP_PREFIX == <<"data", "ftp", "">>
PS_CACHE_PREFIX == <<"cache", "ps_cache", "">>
GS_BUCKET == "arxiv-production-data"
EnsureAttempts == 3
UPLOAD_RETRYS == 4

---------------------------------------------------------------------------
(* Text *)

NoText == <<>>

Line(k, a, b) == [k |-> k, a |-> a, b |-> b]

Extensions == {".pdf", ".gz", ".html", ".tar", ".abs"}

\* str.endswith on a tokenised text
EndsWith(s, suffix) ==
    /\ Len(s) >= Len(suffix)
    /\ SubSeq(s, Len(s) - Len(suffix) + 1, Len(s)) = suffix

\* The least element of a set of positions, or 0 when it is empty.
MinOrZero(S) == IF S = {} THEN 0 ELSE CHOOSE i \in S : \A j \in S : i <= j


---------------------------------------------------------------------------
(* identifier.Identifier: the external parser of identifier strings *)

\* The year-month bucket of a file name: its first four characters.
yymmOf(filename) ==
    CASE filename = "2201.00001" -> "2201"
      [] filename = "9901001" -> "9901"
      [] OTHER -> "0000"

Identifier(s) ==
    LET hasv == Len(s) >= 3 /\ s[Len(s) - 1] = "v"
        base == IF hasv THEN SubSeq(s, 1, Len(s) - 2) ELSE s
        old == Len(base) = 2
        fname == base[Len(base)]
    IN [id |-> base,
        version |-> IF hasv THEN s[Len(s)] ELSE "0",
        idv |-> s,
        is_old_id |-> old,
        archive |-> IF old THEN base[1] ELSE "arxiv",
        yymm |-> yymmOf(fname),
        filename |-> fname]

---------------------------------------------------------------------------
(* make_todos.py *)

\* The patterns, as predicates of one line.
sub_start_r(l) == l.k \in {"start", "end"}
sub_end_r(l) == l.k = "end"
\* A test_r that matches nothing.
test_r_never(l) == FALSE

test_r(l) == l.k = "test"
abs_r(l) == l.k = "absfile"
src_pdf_r(l) == l.k = "docsrc" /\ EndsWith(l.a, <<".pdf">>)
\* An html pattern that matches nothing.
src_html_r_never(l) == FALSE

src_html_r(l) == l.k = "docsrc" /\ EndsWith(l.a, <<".html", ".gz">>)
src_tex_r(l) == l.k = "docsrc" /\ EndsWith(l.a, <<".gz">>)
\* A move pattern that matches nothing.
move_r_never(l) == FALSE

move_r(l) == l.k = "moved"
cross_r(l) == l.k = "cross"
jref_r(l) == l.k = "jref"

\* pattern.search(line) for the one-line patterns, by name
Matches(pattern, l) ==
    CASE pattern = "test_r" -> test_r(l)
      [] pattern = "abs_r" -> abs_r(l)
      [] pattern = "src_pdf_r" -> src_pdf_r(l)
      [] pattern = "src_html_r" -> src_html_r(l)
      [] pattern = "src_tex_r" -> src_tex_r(l)
      [] pattern = "move_r" -> move_r(l)
      [] pattern = "cross_r" -> cross_r(l)
      [] pattern = "jref_r" -> jref_r(l)
      [] OTHER -> FALSE

\* pattern.search(txt) in a block text: the first matching line, or 0
SearchLine(txt, pattern) ==
    MinOrZero({i \in 1..Len(txt) : Matches(pattern, txt[i])})

\* A new_r that matches nothing.
new_r_never(txt) == 0

\* new_r: a "new submission" line directly followed by a "paper_id:" line.
\* The position of the first match, or 0.
new_r(txt) ==
    MinOrZero({i \in 1..Len(txt) :
        /\ i + 1 <= Len(txt)
        /\ txt[i].k = "newsub"
        /\ txt[i + 1].k = "paperid"})

\* rep_r and wdr_r: the marker line, any one line, "old version:" and
\* "new version:" lines.  The position of the first match, or 0.
VersionedMarker(txt, k) ==
    MinOrZero({i \in 1..Len(txt) :
        /\ i + 3 <= Len(txt)
        /\ txt[i].k = k
        /\ txt[i + 2].k = "oldver"
        /\ txt[i + 3].k = "newver"})

rep_r(txt) == VersionedMarker(txt, "replfor")
wdr_r(txt) == VersionedMarker(txt, "wdrof")

Todo(subid, subtype, idv, action, item) == <<subid, subtype, idv, action, item>>

upload_abs_acts(subid, arxiv_id, subtype) ==
    LET archive == IF ~arxiv_id.is_old_id THEN "arxiv" ELSE arxiv_id.archive
    IN << Todo(subid, subtype, arxiv_id.idv, "upload",
               FTP_PREFIX \o <<archive, "papers", arxiv_id.yymm,
                               arxiv_id.filename, ".abs">>) >>

upload_abs_src_acts(subid, arxiv_id, subtype, txt) ==
    LET absm == SearchLine(txt, "abs_r")
        pdfm == SearchLine(txt, "src_pdf_r")
        texm == SearchLine(txt, "src_tex_r")
        htmlm == SearchLine(txt, "src_html_r")
        Up(item) == Todo(subid, subtype, arxiv_id.idv, "upload", item)
        actions == IF absm # 0 THEN << Up(txt[absm].a) >> ELSE << >>
    IN IF pdfm # 0 THEN Append(actions, Up(txt[pdfm].a))
       ELSE IF htmlm # 0 THEN Append(actions, Up(txt[htmlm].a))
       ELSE IF texm # 0 THEN
            actions \o << Up(txt[texm].a),
                          Todo(subid, subtype, arxiv_id.idv, "build+upload",
                               arxiv_id.id \o <<"v", arxiv_id.version>>) >>
       ELSE actions

RECURSIVE rep_version_acts(_, _, _, _)
rep_version_acts(subid, arxiv_id, subtype, txt) ==
    IF txt = << >> THEN << >>
    ELSE (IF move_r(Head(txt))
          THEN << Todo(subid, subtype, arxiv_id.idv, "upload", Head(txt).b) >>
          ELSE << >>)
         \o rep_version_acts(subid, arxiv_id, subtype, Tail(txt))

\* A filter that keeps everything.
FilterNothing(acts) == acts

\* filter(lambda tt: tt[3] != 'build+upload', ...)
RECURSIVE FilterNotBuild(_)
FilterNotBuild(acts) ==
    IF acts = << >> THEN << >>
    ELSE (IF Head(acts)[4] # "build+upload" THEN << Head(acts) >> ELSE << >>)
         \o FilterNotBuild(Tail(acts))

\* The segmenter loop of make_todos: subs after reading lines[i..].
RECURSIVE Segment(_, _, _, _, _, _)
Segment(lines, i, subs, in_sub, txt, sm) ==
    IF i > Len(lines) THEN subs
    ELSE LET line == lines[i] IN
        IF in_sub
        THEN IF sub_end_r(line)
             THEN Segment(lines, i + 1, Append(subs, <<sm, Append(txt, line)>>),
                          FALSE, << >>, "")
             ELSE Segment(lines, i + 1, subs, TRUE, Append(txt, line), sm)
        ELSE IF sub_start_r(line)
             THEN Segment(lines, i + 1, subs, TRUE, txt, line.a[1])
             ELSE Segment(lines, i + 1, subs, FALSE, txt, "")

\* A segmenter that begins inside a block.
SubsFromInside(lines) == Segment(lines, 1, << >>, TRUE, << >>, "")

Subs(lines) == Segment(lines, 1, << >>, FALSE, << >>, "")

\* The body of the loop over subs: the actions of one block.
BlockTodos(subid, txt) ==
    IF SearchLine(txt, "test_r") # 0 THEN << >>
    ELSE IF new_r(txt) # 0 THEN
        LET arxiv_id == Identifier(txt[new_r(txt) + 1].a \o <<"v", "1">>)
        IN upload_abs_src_acts(subid, arxiv_id, "new", txt)
    ELSE IF rep_r(txt) # 0 THEN
        LET m == rep_r(txt)
            arxiv_id == Identifier(txt[m].a \o <<"v">> \o txt[m + 3].a)
        IN rep_version_acts(subid, arxiv_id, "rep", txt)
           \o upload_abs_src_acts(subid, arxiv_id, "rep", txt)
    ELSE IF wdr_r(txt) # 0 THEN
        LET m == wdr_r(txt)
            arxiv_id == Identifier(txt[m].a \o <<"v">> \o txt[m + 3].a)
        IN FilterNotBuild(rep_version_acts(subid, arxiv_id, "wdr", txt)
                          \o upload_abs_src_acts(subid, arxiv_id, "wdr", txt))
    ELSE IF SearchLine(txt, "cross_r") # 0 THEN
        upload_abs_acts(subid, Identifier(txt[SearchLine(txt, "cross_r")].a), "cross")
    ELSE IF SearchLine(txt, "jref_r") # 0 THEN
        upload_abs_acts(subid, Identifier(txt[SearchLine(txt, "jref_r")].a), "jref")
    ELSE << >>

RECURSIVE TodosOf(_)
TodosOf(subs) ==
    IF subs = << >> THEN << >>
    ELSE BlockTodos(Head(subs)[1], Head(subs)[2]) \o TodosOf(Tail(subs))

make_todos(lines) == TodosOf(Subs(lines))

---------------------------------------------------------------------------
(* Log texts *)

ModernId == <<"2201.00001">>
LegacyId == <<"hep-th", "9901001">>

PaperDir == <<"data", "ftp", "arxiv", "papers", "2201", "2201.00001">>
AbsPath == PaperDir \o <<".abs">>
PdfPath == PaperDir \o <<".pdf">>
HtmlPath == PaperDir \o <<".html", ".gz">>
TexPath == PaperDir \o <<".tar", ".gz">>
StrayPath == <<"tmp", "2201.00001", ".abs">>

StartLine(n) == Line("start", <<n>>, NoText)
EndLine(n) == Line("end", <<n>>, NoText)
OtherLine == Line("other", NoText, NoText)
TestEntry == << Line("test", NoText, NoText) >>
NewEntry(id) == << Line("newsub", NoText, NoText), Line("paperid", id, NoText) >>
RepEntry(id, old, new) ==
    << Line("replfor", id, NoText), OtherLine,
       Line("oldver", <<old>>, NoText), Line("newver", <<new>>, NoText) >>
WdrEntry(id, old, new) ==
    << Line("wdrof", id, NoText), OtherLine,
       Line("oldver", <<old>>, NoText), Line("newver", <<new>>, NoText) >>
CrossEntry(idv) == << Line("cross", idv, NoText) >>
JrefEntry(idv) == << Line("jref", idv, NoText) >>
AbsEntry(path) == << Line("absfile", path, NoText) >>
SrcEntry(path) == << Line("docsrc", path, NoText) >>
MovedEntry(from, to) == << Line("moved", from, to) >>

Block(n, body) == << StartLine(n) >> \o body \o << EndLine(n) >>

\* Logs whose plans are run by the engine model.
NewTexLog == Block("4001", NewEntry(ModernId) \o SrcEntry(TexPath))
DupLog ==
    Block("4002", RepEntry(ModernId, "1", "2") \o MovedEntry(StrayPath, AbsPath)
                  \o AbsEntry(AbsPath))
CrossLog ==
    Block("4003", CrossEntry(LegacyId \o <<"v", "3">>))
    \o Block("4004", WdrEntry(ModernId, "2", "3") \o MovedEntry(AbsPath, StrayPath))

SampleLogs == {NewTexLog, DupLog, CrossLog}

---------------------------------------------------------------------------
(* sync_published_to_gcp.py: paths, keys, urls *)

\* Path(...): a doubled slash is one slash.
RECURSIVE PathOf(_)
PathOf(p) ==
    IF p = << >> THEN << >>
    ELSE (IF Head(p) = "" THEN << >> ELSE << Head(p) >>) \o PathOf(Tail(p))

\* str.startswith('/root/')
StartsWithRoot(p, root) ==
    Len(p) >= 2 /\ p[1] = root /\ p[2] \notin Extensions

\* str.replace('/root/', ''): every occurrence of "/root/" is cut out, which
\* joins the component before it (if any) with the one after it.
RECURSIVE ReplaceRoot(_, _, _, _, _)
ReplaceRoot(p, root, i, acc, glue) ==
    IF i > Len(p) THEN acc
    ELSE IF ~glue /\ p[i] = root /\ i < Len(p) /\ p[i + 1] \notin Extensions
         THEN ReplaceRoot(p, root, i + 1, acc, TRUE)
    ELSE IF glue /\ acc # << >>
         THEN ReplaceRoot(p, root, i + 1,
                          [acc EXCEPT ![Len(acc)] = @ \o p[i]], FALSE)
    ELSE ReplaceRoot(p, root, i + 1, Append(acc, p[i]), FALSE)

NoKey == << >>

\* The bucket key of a local path, or NoKey where the code raises ValueError.
path_to_bucket_key(pdf) ==
    IF StartsWithRoot(pdf, "cache") THEN ReplaceRoot(pdf, "cache", 1, << >>, FALSE)
    ELSE IF StartsWithRoot(pdf, "data") THEN ReplaceRoot(pdf, "data", 1, << >>, FALSE)
    ELSE NoKey

pdf_cache_path(arxiv_id) ==
    LET archive == IF ~arxiv_id.is_old_id THEN "arxiv" ELSE arxiv_id.archive
    IN PathOf(PS_CACHE_PREFIX \o
              <<archive, "pdf", arxiv_id.yymm,
                arxiv_id.filename \o "v" \o arxiv_id.version, ".pdf">>)

arxiv_pdf_url(host, arxiv_id) ==
    <<"https:", "", host, "pdf",
      arxiv_id.filename \o "v" \o arxiv_id.version, ".pdf?nocdn=1">>

mime_from_fname(filepath) ==
    LET suffix == IF filepath # << >> /\ filepath[Len(filepath)] \in Extensions
                  THEN filepath[Len(filepath)] ELSE ""
    IN CASE suffix = ".pdf" -> "application/pdf"
         [] suffix = ".gz" -> "application/gzip"
         [] suffix = ".abs" -> "text/plain"
         [] OTHER -> ""

\* localpath.stat().st_size: the files do not change during a run.
st_size(localpath) == Len(localpath)

---------------------------------------------------------------------------
(* sync_published_to_gcp.py: the state *)

VARIABLES
    log,          \* the lines of the publish log (the planner's input)
    todo,         \* the list make_todos returned
    mainpc,       \* the position of the main thread
    RUN,          \* the global RUN
    signalled,    \* history: handler_stop_signals has run
    build_pdf_q,  \* Queue of build jobs
    upload_q,     \* Queue of upload jobs
    summary_q,    \* Queue of outcome rows, as a bag: only read sorted
    th,           \* per thread: position, job in hand, attempt, poll ticks
    cache,        \* the files that exist under /cache/ps_cache
    requested,    \* the PDFs a web host has been asked for (status 200)
    gs,           \* the bucket: a set of objects [key, size, ctype]
    taken,        \* history: a bag of the numbers of the jobs dequeued
    sent,         \* history: a bag of the keys of the transfers made
    faults        \* history: the number of failed requests so far

vars == <<log, todo, mainpc, RUN, signalled, build_pdf_q, upload_q, summary_q,
          th, cache, requested, gs, taken, sent, faults>>

ENSURE_HOSTS == { <<"web5.arxiv.org", ThreadsPerHost>> }

BuildThreads == UNION { { <<hn[1], i>> : i \in 1..hn[2] } : hn \in ENSURE_HOSTS }
UploadThreads == { <<"upload", i>> : i \in 1..NumUploadThreads }
Threads == BuildThreads \cup UploadThreads

\* A queue element: the 5-tuple of the code and, as history, the number of
\* the job: its place in todo, or that of the build job it follows plus
\* Len(todo).
Job(t, jid) == [t |-> t, jid |-> jid]
NoJob == Job(<< >>, 0)

Idle(pc) == [pc |-> pc, job |-> NoJob, attempt |-> 0, tick |-> 0,
             reqs |-> 0, last |-> ""]

\* A routing that puts every item, whatever its action.
RoutedAll(items, i, action) == [k \in 1..Len(items) |-> Job(items[k], k)]

\* enqueue_todos: the items of todo[i..] with the given action, numbered.
RECURSIVE Routed(_, _, _)
Routed(items, i, action) ==
    IF i > Len(items) THEN << >>
    ELSE (IF items[i][4] = action THEN << Job(items[i], i) >> ELSE << >>)
         \o Routed(items, i + 1, action)

\* An outcome row of summary_q; jid is history.
Row(idv, stage, status, detail, size, jid) ==
    [idv |-> idv, stage |-> stage, status |-> status, detail |-> detail,
     size |-> size, jid |-> jid]

Put(q, row) == q (+) SetToBag({row})

\* bucket.get_blob(key): the sizes of the objects under key (none or one)
get_blob(key) == { o.size : o \in { x \in gs : x.key = key } }

\* bucket.blob(key).upload_from_file(fh, content_type)
upload_from_file(key, localpath) ==
    { o \in gs : o.key # key }
    \cup { [key |-> key, size |-> st_size(localpath),
            ctype |-> mime_from_fname(localpath)] }

\* The upload targets of a plan and the PDFs its build jobs need.
UploadTargets(items) ==
    { items[i][5] : i \in { j \in 1..Len(items) : items[j][4] = "upload" } }
BuildPdfs(items) ==
    { pdf_cache_path(Identifier(items[i][5])) :
        i \in { j \in 1..Len(items) : items[j][4] = "build+upload" } }

\* The size of an object left by an earlier version of a file: the size of
\* no path.
StaleSize == st_size(<< >>)

\* A bucket that already holds every target, with the size of the local
\* file or with another size.
Bucket(items, stale) ==
    { [key |-> path_to_bucket_key(p),
       size |-> IF stale THEN StaleSize ELSE st_size(PathOf(p)),
       ctype |-> mime_from_fname(PathOf(p))] :
        p \in { q \in UploadTargets(items) : path_to_bucket_key(q) # NoKey } }


---------------------------------------------------------------------------
(* sync_published_to_gcp.py: __main__ *)

\* The buckets a run on the given log may find: empty, or holding every
\* target with its present size, or holding every target with another size.
Buckets(lines) ==
    IF BuildPdfs(make_todos(lines)) # {} THEN { {} }
    ELSE { {}, Bucket(make_todos(lines), FALSE), Bucket(make_todos(lines), TRUE) }

\* The state when the program starts on one of the sample logs.
Init ==
    /\ log \in SampleLogs
    /\ todo = << >>
    /\ mainpc = "plan"
    /\ RUN = TRUE
    /\ signalled = FALSE
    /\ build_pdf_q = << >>
    /\ upload_q = << >>
    /\ summary_q = EmptyBag
    /\ th = [t \in Threads |-> Idle("unstarted")]
    /\ cache \in SUBSET BuildPdfs(make_todos(log))
    /\ requested = {}
    /\ gs \in Buckets(log)
    /\ taken = EmptyBag
    /\ sent = EmptyBag
    /\ faults = 0

\* handler_stop_signals, on SIGINT or SIGTERM.  A signal that finds RUN
\* false changes nothing and is left out.
Signal ==
    /\ RUN
    /\ signalled' = TRUE
    /\ RUN' = FALSE
    /\ UNCHANGED <<log, todo, mainpc, build_pdf_q, upload_q, summary_q, th,
                   cache, requested, gs, taken, sent, faults>>

MainPlan ==
    /\ mainpc = "plan"
    /\ todo' = make_todos(log)
    /\ mainpc' = "enqueue"
    /\ UNCHANGED <<log, RUN, signalled, build_pdf_q, upload_q, summary_q, th,
                   cache, requested, gs, taken, sent, faults>>

enqueue_todos ==
    /\ mainpc = "enqueue"
    /\ upload_q' = upload_q \o Routed(todo, 1, "upload")
    /\ build_pdf_q' = build_pdf_q \o Routed(todo, 1, "build+upload")
    /\ mainpc' = "start_pdf"
    /\ UNCHANGED <<log, todo, RUN, signalled, summary_q, th, cache, requested,
                   gs, taken, sent, faults>>

\* [t.start() for t in ths]
StartThreads(ts, next) ==
    /\ th' = [t \in Threads |-> IF t \in ts THEN Idle("started") ELSE th[t]]
    /\ mainpc' = next
    /\ UNCHANGED <<log, todo, RUN, signalled, build_pdf_q, upload_q, summary_q,
                   cache, requested, gs, taken, sent, faults>>

MainStartPdf == mainpc = "start_pdf" /\ StartThreads(BuildThreads, "start_upload")

MainStartUpload == mainpc = "start_upload" /\ StartThreads(UploadThreads, "wait_build")

\* A polling loop of the main thread: while RUN and not q.empty(): sleep
WaitLoopDone(q) == ~RUN \/ q = << >>

MainStep(next) ==
    /\ mainpc' = next
    /\ UNCHANGED <<log, todo, RUN, signalled, build_pdf_q, upload_q, summary_q,
                   th, cache, requested, gs, taken, sent, faults>>

MainWaitBuild == mainpc = "wait_build" /\ WaitLoopDone(build_pdf_q) /\ MainStep("wait_upload")

MainWaitUpload == mainpc = "wait_upload" /\ WaitLoopDone(upload_q) /\ MainStep("stop")

\* DONE=True; RUN=False
MainStop ==
    /\ mainpc = "stop"
    /\ RUN' = FALSE
    /\ mainpc' = "join"
    /\ UNCHANGED <<log, todo, signalled, build_pdf_q, upload_q, summary_q, th,
                   cache, requested, gs, taken, sent, faults>>

\* [th.join() for th in pdf_threads + upload_threads]
Joined == \A t \in Threads : th[t].pc = "exited"

MainJoin == mainpc = "join" /\ Joined /\ MainStep("report")

\* The rows of summary_q are read and printed.
MainReport == mainpc = "report" /\ MainStep("done")

---------------------------------------------------------------------------
(* Both thread targets: while RUN: job = q.get(block=False) ... *)

SetTh(t, r) == th' = [th EXCEPT ![t] = r]

\* The threads of one target and host run the same code on the same
\* arguments, so they are numbered in the order in which they first run.
FirstToRun(t) ==
    \A u \in Threads : (u[1] = t[1] /\ u[2] < t[2]) => th[u].pc # "started"

\* while RUN
ThreadLoop(t) ==
    /\ \/ th[t].pc = "loop"
       \/ th[t].pc = "started" /\ FirstToRun(t)
    /\ SetTh(t, Idle(IF RUN THEN "get" ELSE "exited"))
    /\ UNCHANGED <<log, todo, mainpc, RUN, signalled, build_pdf_q, upload_q,
                   summary_q, cache, requested, gs, taken, sent, faults>>

\* q.get(block=False) raised Empty: break
ThreadBreak(t) ==
    /\ SetTh(t, Idle("exited"))
    /\ UNCHANGED <<log, todo, mainpc, RUN, signalled, build_pdf_q, upload_q,
                   summary_q, cache, requested, gs, taken, sent, faults>>

\* A get that leaves the job in the queue.
RestAll(q) == q

\* What q.get leaves in the queue.
Rest(q) == Tail(q)

---------------------------------------------------------------------------
(* ensure_pdf_build_thread_target and ensure_pdf *)

JobPdf(job) == pdf_cache_path(Identifier(job.t[5]))
JobUrl(t, job) == arxiv_pdf_url(t[1], Identifier(job.t[5]))

\* An exists() that may miss a file that is there.
ExistsOrNot(pdf) == {TRUE, FALSE}

\* pdf_file.exists(): what the call may return.  A PDF that a web host has
\* been asked for is written to the cache at some time after the request;
\* the model lets it appear when the program next looks for it.
Exists(pdf) ==
    IF pdf \in cache THEN {TRUE}
    ELSE IF pdf \in requested THEN {TRUE, FALSE}
    ELSE {FALSE}

\* A wait without a limit.
PollNeverTimedOut(tick) == FALSE

\* if perf_counter() - start_wait > PDF_WAIT_SEC, after tick sleeps
PollTimedOut(tick) == tick > MaxPollTicks

\* A retry on every kind of exception.
EnsureRetriesAny(kind, attempt) == attempt < EnsureAttempts

\* The @retry of tl_ensure_pdf: whether an exception of this kind, raised
\* by the given attempt, leads to another attempt.  "status" and "timeout"
\* are EnsurePdfException, "neterr" is requests.RequestException.
EnsureRetries(kind, attempt) ==
    /\ kind \in {"status", "timeout", "neterr"}
    /\ attempt < EnsureAttempts

\* The follow-on upload job put on upload_q after a successful ensure.
FollowOn(job) ==
    Job(<<job.t[1], job.t[2], job.t[3], "upload", JobPdf(job)>>,
        Len(todo) + job.jid)

\* A follow-on job put whatever ensure_pdf did.
FollowOnsAlways(job, status) == << FollowOn(job) >>

\* What the build thread puts on upload_q after ensure_pdf returned or raised.
FollowOns(job, status) ==
    IF status = "failed" THEN << >> ELSE << FollowOn(job) >>

\* The end of one pass of the loop: the row, the follow-on job, task_done.
BuildDone(t, status, detail) ==
    /\ summary_q' = Put(summary_q,
            Row(th[t].job.t[3], "ensure_pdf", status, detail, 0, th[t].job.jid))
    /\ upload_q' = upload_q \o FollowOns(th[t].job, status)
    /\ SetTh(t, Idle("loop"))

\* An exception leaves ensure_pdf: tenacity tries again or reraises.
EnsureRaise(t, r, kind) ==
    IF EnsureRetries(kind, r.attempt)
    THEN /\ SetTh(t, [r EXCEPT !.pc = "check", !.attempt = @ + 1, !.tick = 0,
                               !.last = kind])
         /\ UNCHANGED <<summary_q, upload_q>>
    ELSE BuildDone(t, "failed", <<kind>>)

BuildGet(t) ==
    /\ th[t].pc = "get"
    /\ IF build_pdf_q = << >>
       THEN ThreadBreak(t)
       ELSE /\ SetTh(t, [Idle("check") EXCEPT !.job = Head(build_pdf_q),
                                              !.attempt = 1])
            /\ build_pdf_q' = Rest(build_pdf_q)
            /\ taken' = taken (+) SetToBag({ Head(build_pdf_q).jid })
            /\ UNCHANGED <<log, todo, mainpc, RUN, signalled, upload_q,
                           summary_q, cache, requested, gs, sent, faults>>

\* What a request may end in, while the run's failures are not used up.
Responses ==
    {"200"} \cup (IF faults < MaxFaults THEN {"status", "neterr", "other"} ELSE {})
Oks == {TRUE} \cup (IF faults < MaxFaults THEN {FALSE} ELSE {})

\* session.get(url): 200, another status, a RequestException, or any other
\* exception
Request(t) ==
    \E resp \in Responses :
        LET r == [th[t] EXCEPT !.reqs = @ + 1] IN
        IF resp = "200"
        THEN /\ SetTh(t, [r EXCEPT !.pc = "poll", !.tick = 0])
             /\ requested' = requested \cup { JobPdf(th[t].job) }
             /\ UNCHANGED <<summary_q, upload_q, faults>>
        ELSE /\ EnsureRaise(t, r, resp)
             /\ faults' = faults + 1
             /\ UNCHANGED requested

\* ensure_pdf, up to the answer to the request:
\* if not pdf_file.exists(): resp = session.get(url) ... else "already exists"
BuildCheck(t) ==
    /\ th[t].pc = "check"
    /\ \E exists \in Exists(JobPdf(th[t].job)) :
        IF exists
        THEN /\ cache' = cache \cup { JobPdf(th[t].job) }
             /\ BuildDone(t, "already exists", JobUrl(t, th[t].job))
             /\ UNCHANGED <<requested, faults>>
        ELSE /\ Request(t)
             /\ UNCHANGED cache
    /\ UNCHANGED <<log, todo, mainpc, RUN, signalled, build_pdf_q, gs, taken, sent>>

\* while not pdf_file.exists(): raise after PDF_WAIT_SEC, else sleep(0.2)
BuildPoll(t) ==
    /\ th[t].pc = "poll"
    /\ \E exists \in Exists(JobPdf(th[t].job)) :
        IF exists
        THEN /\ cache' = cache \cup { JobPdf(th[t].job) }
             /\ BuildDone(t, "None", JobUrl(t, th[t].job))
        ELSE /\ UNCHANGED cache
             /\ IF PollTimedOut(th[t].tick)
                THEN EnsureRaise(t, th[t], "timeout")
                ELSE /\ SetTh(t, [th[t] EXCEPT !.tick = @ + 1])
                     /\ UNCHANGED <<summary_q, upload_q>>
    /\ UNCHANGED <<log, todo, mainpc, RUN, signalled, build_pdf_q, requested,
                   gs, taken, sent, faults>>

---------------------------------------------------------------------------
(* upload_thread_target and upload *)

JobKey(job) == path_to_bucket_key(job.t[5])

\* An upload that never looks at the blob.
NeedsUploadAlways(blob, size) == TRUE

\* if blob is None or blob.size != localpath.stat().st_size
NeedsUpload(blob, size) == blob = {} \/ blob # {size}

\* The @retry of upload: any exception, UPLOAD_RETRYS attempts.
UploadRetries(attempt) == attempt < UPLOAD_RETRYS

UploadDone(t, job, status, detail, size) ==
    /\ summary_q' = Put(summary_q,
            Row(job.t[3], "upload", status, detail, size, job.jid))
    /\ SetTh(t, Idle("loop"))

UploadRaise(t) ==
    IF UploadRetries(th[t].attempt)
    THEN /\ SetTh(t, [th[t] EXCEPT !.pc = "blob", !.attempt = @ + 1])
         /\ UNCHANGED summary_q
    ELSE UploadDone(t, th[t].job, "failed", <<"error">>, 0)

UploadGet(t) ==
    /\ th[t].pc = "get"
    /\ IF upload_q = << >>
       THEN ThreadBreak(t)
       ELSE LET job == Head(upload_q) IN
            /\ upload_q' = Rest(upload_q)
            /\ taken' = taken (+) SetToBag({ job.jid })
            /\ IF JobKey(job) = NoKey
               THEN UploadDone(t, job, "failed", <<"ValueError">>, 0)
               ELSE /\ SetTh(t, [Idle("blob") EXCEPT !.job = job, !.attempt = 1])
                    /\ UNCHANGED summary_q
            /\ UNCHANGED <<log, todo, mainpc, RUN, signalled, build_pdf_q,
                           cache, requested, gs, sent, faults>>

\* upload: bucket.get_blob(key) and localpath.stat(), which may raise
UploadBlob(t) ==
    /\ th[t].pc = "blob"
    /\ \E ok \in Oks :
        IF ~ok THEN UploadRaise(t) /\ faults' = faults + 1
        ELSE /\ UNCHANGED faults
             /\ IF NeedsUpload(get_blob(JobKey(th[t].job)),
                               st_size(PathOf(th[t].job.t[5])))
                THEN /\ SetTh(t, [th[t] EXCEPT !.pc = "send"])
                     /\ UNCHANGED summary_q
                ELSE UploadDone(t, th[t].job, "already_on_gs",
                                <<"gs:", "", GS_BUCKET>> \o JobKey(th[t].job), 0)
    /\ UNCHANGED <<log, todo, mainpc, RUN, signalled, build_pdf_q, upload_q,
                   cache, requested, gs, taken, sent>>

\* upload: upload_from_file, which may raise
UploadSend(t) ==
    /\ th[t].pc = "send"
    /\ \E ok \in Oks :
        IF ok
        THEN /\ UNCHANGED faults
             /\ gs' = upload_from_file(JobKey(th[t].job), PathOf(th[t].job.t[5]))
             /\ sent' = sent (+) SetToBag({ JobKey(th[t].job) })
             /\ UploadDone(t, th[t].job, "uploaded",
                           <<"gs:", "", GS_BUCKET>> \o JobKey(th[t].job),
                           st_size(PathOf(th[t].job.t[5])))
        ELSE /\ UploadRaise(t)
             /\ faults' = faults + 1
             /\ UNCHANGED <<gs, sent>>
    /\ UNCHANGED <<log, todo, mainpc, RUN, signalled, build_pdf_q, upload_q,
                   cache, requested, taken>>

---------------------------------------------------------------------------
(* The program *)

Main ==
    \/ MainPlan
    \/ enqueue_todos
    \/ MainStartPdf
    \/ MainStartUpload
    \/ MainWaitBuild
    \/ MainWaitUpload
    \/ MainStop
    \/ MainJoin
    \/ MainReport

BuildThread(t) ==
    \/ ThreadLoop(t)
    \/ BuildGet(t)
    \/ BuildCheck(t)
    \/ BuildPoll(t)

UploadThread(t) ==
    \/ ThreadLoop(t)
    \/ UploadGet(t)
    \/ UploadBlob(t)
    \/ UploadSend(t)

\* Every step but a signal.
Program ==
    \/ Main
    \/ \E t \in BuildThreads : BuildThread(t)
    \/ \E t \in UploadThreads : UploadThread(t)

Next == Program \/ Signal

Spec == Init /\ [][Next]_vars

---------------------------------------------------------------------------
(* The planner on every log of a bounded size *)

SubIds == {"4001", "4002"}

\* What the publishing system writes between start and end lines.
Entries ==
    { TestEntry, NewEntry(ModernId), RepEntry(ModernId, "1", "2"),
      WdrEntry(ModernId, "2", "3"), CrossEntry(LegacyId \o <<"v", "3">>),
      JrefEntry(ModernId \o <<"v", "2">>), AbsEntry(AbsPath), SrcEntry(PdfPath),
      SrcEntry(HtmlPath), SrcEntry(TexPath), MovedEntry(StrayPath, AbsPath),
      MovedEntry(StrayPath, PdfPath), AbsEntry(NoText) }


\* The numbers of start lines and end lines of a log.
Starts(lines) == Cardinality({ i \in DOMAIN lines : lines[i].k = "start" })
Ends(lines) == Cardinality({ i \in DOMAIN lines : lines[i].k = "end" })
\* The number of entries of a log: each begins with one line of these.
EntriesIn(lines) ==
    Cardinality({ i \in DOMAIN lines :
        lines[i].k \in {"test", "newsub", "replfor", "wdrof", "cross", "jref",
                        "absfile", "docsrc", "moved"} })

PlanInit ==
    /\ log = << >>
    /\ todo = << >>
    /\ mainpc = "plan"
    /\ RUN = TRUE
    /\ signalled = FALSE
    /\ build_pdf_q = << >>
    /\ upload_q = << >>
    /\ summary_q = EmptyBag
    /\ th = [t \in Threads |-> Idle("unstarted")]
    /\ cache = {}
    /\ requested = {}
    /\ gs = {}
    /\ taken = EmptyBag
    /\ sent = EmptyBag
    /\ faults = 0

Write(lines) ==
    /\ mainpc = "plan"
    /\ log' = log \o lines
    /\ UNCHANGED <<todo, mainpc, RUN, signalled, build_pdf_q, upload_q,
                   summary_q, th, cache, requested, gs, taken, sent, faults>>

\* The log of one processing: one start line.
WriteStart ==
    /\ Starts(log) = 0
    /\ Write(<< StartLine("4001") >>)

\* The number of the last start line written.
LastStart(lines) ==
    lines[CHOOSE i \in DOMAIN lines :
            /\ lines[i].k = "start"
            /\ \A j \in DOMAIN lines : lines[j].k = "start" => j <= i].a[1]

\* An end line closes the processing the last start line began.
WriteEnd ==
    /\ Ends(log) < Starts(log)
    /\ Write(<< EndLine(LastStart(log)) >>)

WriteEntry ==
    /\ Starts(log) > 0
    /\ EntriesIn(log) < MaxEntries
    /\ \E e \in Entries : Write(e)

PlanNext == WriteStart \/ WriteEnd \/ WriteEntry \/ MainPlan

PlanSpec == PlanInit /\ [][PlanNext]_vars

Planned == mainpc = "enqueue"

---------------------------------------------------------------------------
(* The planner on logs written piece by piece *)

\* What one processing may write between its start and end lines; each
\* begins with a line no other line of these texts is like.
Bodies ==
    { NewEntry(ModernId) \o SrcEntry(TexPath),
      RepEntry(ModernId, "1", "2") \o SrcEntry(PdfPath),
      CrossEntry(LegacyId \o <<"v", "3">>),
      AbsEntry(AbsPath) }

\* The number of pieces of a log: the number of its bodies.
PiecesIn(lines) ==
    Cardinality({ i \in DOMAIN lines :
        lines[i].k \in {"newsub", "replfor", "cross", "absfile"} })

WritePiece(lines) == PiecesIn(log) < MaxPieces /\ Write(lines)

\* A whole block.
WriteBlock == \E n \in SubIds, b \in Bodies : WritePiece(Block(n, b))

\* A block that is not ended.
WriteOpenBlock ==
    \E n \in SubIds, b \in Bodies : WritePiece(<< StartLine(n) >> \o b)

\* Lines without a start or an end line.
WriteStrayLines == \E b \in Bodies : WritePiece(b)

\* The end of a block whose start is not in the log.
WriteBlockTail ==
    \E n \in SubIds, b \in Bodies : WritePiece(b \o << EndLine(n) >>)

\* Two ends of blocks whose starts are not in the log.
WriteBlockTails ==
    \E n \in SubIds, b \in Bodies :
        WritePiece(<< EndLine(n) >> \o b \o << EndLine(n) >>)

BlocksNext ==
    \/ WriteBlock
    \/ WriteOpenBlock
    \/ WriteStrayLines
    \/ WriteBlockTail
    \/ WriteBlockTails
    \/ MainPlan

BlocksSpec == PlanInit /\ [][BlocksNext]_vars

---------------------------------------------------------------------------
(* One upload thread, a plan that lists one target twice *)

\* Logs of a replacement whose abstract was moved into place and is also
\* named by the absfile line: two upload jobs for one path.
TwiceLogs ==
    { Block("4002", RepEntry(ModernId, "1", "2") \o MovedEntry(StrayPath, p)
                    \o AbsEntry(p)) :
        p \in {AbsPath, PdfPath, HtmlPath, TexPath, StrayPath} }

\* The state of the program when its threads have been started on such a
\* log.
TwiceInit ==
    /\ log \in TwiceLogs
    /\ todo = make_todos(log)
    /\ mainpc = "wait_build"
    /\ RUN = TRUE
    /\ signalled = FALSE
    /\ build_pdf_q = Routed(todo, 1, "build+upload")
    /\ upload_q = Routed(todo, 1, "upload")
    /\ summary_q = EmptyBag
    /\ th = [t \in Threads |-> Idle("started")]
    /\ cache = {}
    /\ requested = {}
    /\ gs \in { {}, Bucket(todo, FALSE), Bucket(todo, TRUE) }
    /\ taken = EmptyBag
    /\ sent = EmptyBag
    /\ faults = 0

\* The runs in which the first upload thread does all the work before any
\* other thread runs.
TwiceNext == UploadThread(<<"upload", 1>>)

TwiceSpec == TwiceInit /\ [][TwiceNext]_vars

---------------------------------------------------------------------------
(* enqueue_todos on any list of items: the planner makes only "upload" and
   "build+upload" items, the function also takes items of any other action.
   summary_q is the module-level queue, empty or not. *)

RouteActions == {"upload", "build+upload", "delete"}

RouteItems ==
    { Todo("4001", "new", ModernId \o <<"v", "1">>, action, p) :
        action \in RouteActions, p \in {AbsPath, TexPath} }

RouteTodos ==
    UNION { [1..n -> RouteItems] : n \in 0..MaxTodo }

RouteInit ==
    /\ log = << >>
    /\ todo \in RouteTodos
    /\ mainpc = "enqueue"
    /\ RUN = TRUE
    /\ signalled = FALSE
    /\ build_pdf_q = << >>
    /\ upload_q = << >>
    /\ summary_q \in { EmptyBag,
                       Put(EmptyBag, Row(ModernId \o <<"v", "1">>, "upload",
                                         "uploaded", << >>, 1, 0)) }
    /\ th = [t \in Threads |-> Idle("unstarted")]
    /\ cache = {}
    /\ requested = {}
    /\ gs = {}
    /\ taken = EmptyBag
    /\ sent = EmptyBag
    /\ faults = 0

RouteNext == enqueue_todos

RouteSpec == RouteInit /\ [][RouteNext]_vars

---------------------------------------------------------------------------
(* The upload threads together on a log that plans two uploads of one
   target, the bucket holding nothing at first. *)

RaceInit ==
    /\ TwiceInit
    /\ gs = {}

RaceNext == \E t \in UploadThreads : UploadThread(t)

RaceSpec == RaceInit /\ [][RaceNext]_vars

---------------------------------------------------------------------------
(* Properties *)

HasRow(jid) == \E r \in BagToSet(summary_q) : r.jid = jid
RowOf(jid) == CHOOSE r \in BagToSet(summary_q) : r.jid = jid

\* The number of rows of summary_q for a job.
RowsOf(jid) ==
    BagCardinality([r \in { x \in BagToSet(summary_q) : x.jid = jid } |->
                        CopiesIn(r, summary_q)])

InHand(jid) == \E t \in Threads : th[t].job # NoJob /\ th[t].job.jid = jid

\* The one row a step added to summary_q, where it added one.
AddedRows ==
    { r \in BagToSet(summary_q') : summary_q' = Put(summary_q, r) }

Transient == {"status", "timeout", "neterr"}

\* C1: in a run without a signal the main thread leaves both wait loops,
\* joins the threads and reports: the program does not come to a halt
\* before the report has been made.
C1_RunReachesReport ==
    (~signalled /\ ~ENABLED Program) => mainpc = "done"

\* C2: in a run without a signal, once the main thread has joined the
\* threads both queues are empty.
C2_QueuesEmptyWhenJoined ==
    (~signalled /\ mainpc \in {"report", "done"}) =>
        build_pdf_q = << >> /\ upload_q = << >>

C3_Inv ==
    /\ \A jid \in BagToSet(taken) :
        /\ CopiesIn(jid, taken) = 1
        /\ Cardinality({ t \in Threads : th[t].job.jid = jid }) <= 1
        /\ RowsOf(jid) = (IF InHand(jid) THEN 0 ELSE 1)
    /\ \A r \in BagToSet(summary_q) : r.jid \in BagToSet(taken)
    /\ \A t \in Threads : th[t].job # NoJob => th[t].job.jid \in BagToSet(taken)
    /\ mainpc \in {"report", "done"} => Joined

\* A row is put by one thread, for the job it holds or has just taken.
C3_Step ==
    summary_q' # summary_q =>
        \E t \in Threads, r \in AddedRows :
            /\ \A u \in Threads \ {t} : th'[u] = th[u]
            /\ th'[t] = Idle("loop")
            /\ \/ th[t].job # NoJob /\ th[t].job.jid = r.jid
               \/ /\ th[t].pc = "get"
                  /\ upload_q # << >>
                  /\ Head(upload_q).jid = r.jid
                  /\ taken' = taken (+) SetToBag({ r.jid })

\* C3: every job a thread takes from a queue gets exactly one row, put by
\* the thread that took it, when that thread is through with it; no job is
\* taken twice; the main thread reads the rows only when every thread has
\* exited.
C3_OneRowPerJob == []C3_Inv /\ [][C3_Step]_vars

C3_Witness ==
    /\ mainpc = "report"
    /\ \E r1, r2 \in BagToSet(summary_q) :
        /\ r1.stage = "ensure_pdf" /\ r1.status = "failed"
        /\ r2.stage = "upload" /\ r2.status = "uploaded"

\* The two jobs of a plan that lists one target twice, their key and the
\* size of the local file.
TwiceKey == JobKey(Job(todo[1], 1))
TwiceSize == st_size(PathOf(todo[1][5]))
FirstRan == HasRow(1) /\ RowOf(1).status # "failed"
SecondRan == HasRow(2) /\ RowOf(2).status # "failed"

\* The first run, where the bucket it finds needs the upload, transfers
\* and reports "uploaded".
C4_FirstStep ==
    (~HasRow(1) /\ NeedsUpload(get_blob(TwiceKey), TwiceSize)) =>
        \A r \in AddedRows :
            (r.jid = 1 /\ r.status # "failed") =>
                /\ r.status = "uploaded"
                /\ r.size = TwiceSize
                /\ sent' = SetToBag({ TwiceKey })
                /\ get_blob(TwiceKey)' = { TwiceSize }

\* After such a first run nothing is transferred and the bucket does not
\* change; the second run reports "already_on_gs" and size 0.
C4_SecondStep ==
    (FirstRan /\ RowOf(1).status = "uploaded") =>
        /\ gs' = gs
        /\ sent' = sent
        /\ \A r \in AddedRows :
            (r.jid = 2 /\ r.status # "failed") =>
                r.status = "already_on_gs" /\ r.size = 0

\* C4: two runs of upload in sequence for one file and key, the first one
\* succeeding on a bucket that has no object of the file's size under the
\* key: the first transfers and reports "uploaded", the second transfers
\* nothing and reports "already_on_gs" with size 0, and the bucket after
\* the second is the bucket after the first.
C4_UploadTwice == [][C4_FirstStep /\ C4_SecondStep]_vars

C4_Witness ==
    /\ FirstRan /\ RowOf(1).status = "uploaded"
    /\ SecondRan /\ RowOf(2).status = "already_on_gs"
    /\ CopiesIn(TwiceKey, sent) = 1

\* C4 as stated, for every bucket the first run may find: two runs of which
\* the first succeeds make exactly one transfer, the first reporting
\* "uploaded" and the second "already_on_gs".
C4_ExactlyOneTransfer ==
    (FirstRan /\ SecondRan) =>
        /\ CopiesIn(TwiceKey, sent) = 1
        /\ RowOf(1).status = "uploaded"
        /\ RowOf(2).status = "already_on_gs" /\ RowOf(2).size = 0

\* C5: when the PDF is in the cache as ensure_pdf checks for it, the step
\* makes no request, does not go on to poll, and ends the job with a row
\* of status "already exists".
C5_Step ==
    \A t \in BuildThreads :
        (th[t].pc = "check" /\ th'[t] # th[t] /\ JobPdf(th[t].job) \in cache') =>
            /\ th'[t] = Idle("loop")
            /\ requested' = requested
            /\ faults' = faults
            /\ summary_q' = Put(summary_q,
                    Row(th[t].job.t[3], "ensure_pdf", "already exists",
                        JobUrl(t, th[t].job), 0, th[t].job.jid))

C5_AlreadyExists == [][C5_Step]_vars

C5_Witness ==
    \E r \in BagToSet(summary_q) :
        /\ r.status = "already exists"
        /\ requested = {}
        /\ \A t \in BuildThreads : th[t].reqs = 0

\* The PDF of the build job a row is about.
RowPdf(r) == JobPdf(Job(todo[r.jid], r.jid))

C6_Inv ==
    /\ \A t \in BuildThreads :
        /\ th[t].tick <= MaxPollTicks + 1
        /\ th[t].attempt <= EnsureAttempts
        /\ th[t].reqs <= th[t].attempt
    /\ \A r \in BagToSet(summary_q) :
        (r.stage = "ensure_pdf" /\ RowPdf(r) \notin cache) =>
            /\ r.status = "failed"
            /\ faults = 0 => r.detail = <<"timeout">>

\* A look at the cache that finds no PDF when the wait is over ends the
\* attempt with a timeout; before that it is one more tick of the wait.
C6_Step ==
    \A t \in BuildThreads :
        (th[t].pc = "poll" /\ th'[t] # th[t] /\ JobPdf(th[t].job) \notin cache') =>
            IF PollTimedOut(th[t].tick)
            THEN \/ /\ th'[t].pc = "check"
                    /\ th'[t].last = "timeout"
                    /\ th'[t].attempt = th[t].attempt + 1
                 \/ /\ th[t].attempt = EnsureAttempts
                    /\ th'[t] = Idle("loop")
                    /\ \E r \in AddedRows :
                        r.status = "failed" /\ r.detail = <<"timeout">>
            ELSE th'[t] = [th[t] EXCEPT !.tick = @ + 1]

\* C6: when the requests succeed and the PDF never appears, each attempt
\* leaves the wait with a timeout when its time is over, the ticks of a
\* wait and the attempts of a job are bounded, and the job ends with a
\* "failed" row.
C6_PollTimeout == []C6_Inv /\ [][C6_Step]_vars

C6_Witness ==
    /\ faults = 0
    /\ \E r \in BagToSet(summary_q) :
        /\ r.stage = "ensure_pdf" /\ r.status = "failed"
        /\ r.detail = <<"timeout">>
        /\ RowPdf(r) \notin cache

C7_Inv ==
    \A t \in BuildThreads :
        /\ th[t].attempt <= EnsureAttempts
        /\ th[t].last \in Transient \cup {""}
        /\ th[t].attempt > 1 => th[t].last \in Transient

\* A step of a build thread that holds a job: it stays in the attempt, or
\* starts another one after a transient failure, or ends the job with one
\* row; a "failed" row says a failure that is not transient, or a transient
\* one of the last attempt.
C7_Step ==
    \A t \in BuildThreads :
        (th[t].job # NoJob /\ th'[t] # th[t]) =>
            \/ /\ th'[t].job = th[t].job
               /\ th'[t].attempt = th[t].attempt
               /\ summary_q' = summary_q
            \/ /\ th'[t].job = th[t].job
               /\ th'[t].attempt = th[t].attempt + 1
               /\ th[t].attempt < EnsureAttempts
               /\ th'[t].last \in Transient
               /\ th'[t].pc = "check"
               /\ summary_q' = summary_q
            \/ /\ th'[t] = Idle("loop")
               /\ \E r \in AddedRows :
                    /\ r.jid = th[t].job.jid
                    /\ r.status = "failed" =>
                        \/ r.detail = <<"other">>
                        \/ /\ r.detail \in { <<k>> : k \in Transient }
                           /\ th[t].attempt = EnsureAttempts

\* C7: a build job makes at most 3 attempts; another attempt follows only
\* a transient failure (another status than 200, a timeout, a network
\* error); any other failure ends the job at once; when the attempts are
\* used up or the failure is not transient the job gets a "failed" row and
\* the thread goes back to its loop.
C7_EnsureRetry == []C7_Inv /\ [][C7_Step]_vars

C7_Witness ==
    /\ \E r \in BagToSet(summary_q) :
        r.stage = "ensure_pdf" /\ r.status = "failed" /\ r.detail = <<"neterr">>
    /\ \E t \in BuildThreads : th[t].pc \in {"loop", "get"}

\* The build job a follow-on job comes from.
CausedBy(job) == todo[job.jid - Len(todo)]

\* A follow-on job: the fields of its build job, the PDF as target, the
\* PDF seen in the cache, and the row of the ensure.
Caused(job) ==
    /\ job.jid - Len(todo) \in 1..Len(todo)
    /\ CausedBy(job)[4] = "build+upload"
    /\ job.t = << CausedBy(job)[1], CausedBy(job)[2], CausedBy(job)[3],
                  "upload", JobPdf(Job(CausedBy(job), 0)) >>
    /\ job.t[5] \in cache
    /\ \E r \in BagToSet(summary_q) :
        /\ r.stage = "ensure_pdf"
        /\ r.jid = job.jid - Len(todo)
        /\ r.status \in {"None", "already exists"}

IsFollowOn(job) == job.jid > Len(todo)

\* C8: a follow-on upload job is put only when ensure_pdf has seen the PDF
\* in the cache; it has the submission number, type and idv of its build
\* job and the PDF as target; a build job whose ensure failed has none.
C8_FollowOnCaused ==
    /\ \A i \in DOMAIN upload_q : IsFollowOn(upload_q[i]) => Caused(upload_q[i])
    /\ \A t \in UploadThreads : IsFollowOn(th[t].job) => Caused(th[t].job)
    /\ \A r \in BagToSet(summary_q) :
        (r.stage = "ensure_pdf" /\ r.status = "failed") =>
            /\ \A i \in DOMAIN upload_q : upload_q[i].jid # Len(todo) + r.jid
            /\ CopiesIn(Len(todo) + r.jid, taken) = 0
    /\ \A r \in BagToSet(summary_q) :
        (r.stage = "upload" /\ r.jid > Len(todo)) =>
            \E e \in BagToSet(summary_q) :
                /\ e.stage = "ensure_pdf"
                /\ e.jid = r.jid - Len(todo)
                /\ e.status # "failed"

C8_Witness ==
    /\ \E i \in DOMAIN upload_q : IsFollowOn(upload_q[i])
    /\ \E r \in BagToSet(summary_q) : r.stage = "ensure_pdf" /\ r.status = "None"

HasTestMarker(txt) == \E i \in DOMAIN txt : txt[i].k = "test"

\* The blocks without a test marker.
RECURSIVE NotTest(_)
NotTest(subs) ==
    IF subs = << >> THEN << >>
    ELSE (IF HasTestMarker(Head(subs)[2]) THEN << >> ELSE << Head(subs) >>)
         \o NotTest(Tail(subs))

\* C9: a block with the test marker in its text gives no action, whatever
\* else is in it: the plan of a log is the plan of its other blocks.
C9_TestBlockNoActions ==
    Planned =>
        /\ \A i \in DOMAIN Subs(log) :
            HasTestMarker(Subs(log)[i][2]) =>
                BlockTodos(Subs(log)[i][1], Subs(log)[i][2]) = << >>
        /\ todo = TodosOf(NotTest(Subs(log)))

C9_Witness ==
    /\ Planned
    /\ todo = << >>
    /\ \E i \in DOMAIN Subs(log) :
        /\ HasTestMarker(Subs(log)[i][2])
        /\ new_r(Subs(log)[i][2]) # 0

\* A block that is handled as a withdrawal.
IsWdr(txt) ==
    /\ ~HasTestMarker(txt)
    /\ new_r(txt) = 0
    /\ rep_r(txt) = 0
    /\ wdr_r(txt) # 0

\* The uploads a withdrawal block asks for: one per moved line, the
\* abstract, the source.
WdrUploads(txt) ==
    Cardinality({ i \in DOMAIN txt : move_r(txt[i]) })
    + (IF SearchLine(txt, "abs_r") # 0 THEN 1 ELSE 0)
    + (IF SearchLine(txt, "src_pdf_r") # 0 \/ SearchLine(txt, "src_tex_r") # 0
       THEN 1 ELSE 0)

RECURSIVE WdrUploadsOf(_)
WdrUploadsOf(subs) ==
    IF subs = << >> THEN 0
    ELSE (IF IsWdr(Head(subs)[2]) THEN WdrUploads(Head(subs)[2]) ELSE 0)
         + WdrUploadsOf(Tail(subs))

\* C10: the plan of a log has no "build+upload" action of a withdrawal,
\* also where the withdrawal block names a .gz source, and it has the
\* uploads of the withdrawal blocks: moved files, abstract, source.
C10_NoBuildForWithdrawal ==
    Planned =>
        /\ \A i \in DOMAIN todo :
            todo[i][2] = "wdr" => todo[i][4] = "upload"
        /\ Cardinality({ i \in DOMAIN todo : todo[i][2] = "wdr" })
            = WdrUploadsOf(Subs(log))

C10_Witness ==
    /\ Planned
    /\ \E i \in DOMAIN Subs(log) :
        /\ IsWdr(Subs(log)[i][2])
        /\ SearchLine(Subs(log)[i][2], "src_tex_r") # 0
    /\ \E i \in DOMAIN todo :
        todo[i][2] = "wdr" /\ todo[i][4] = "upload" /\ todo[i][5] = TexPath

\* The build actions of a plan for one submission number.
BuildsFor(subid) ==
    { i \in DOMAIN todo : todo[i][1] = subid /\ todo[i][4] = "build+upload" }

\* C13: the plan of a log has at most one "build+upload" action for each
\* submission number, also when several blocks of the log carry the same
\* number.
C13_OneBuildPerSubmission ==
    Planned => \A n \in SubIds : Cardinality(BuildsFor(n)) <= 1

\* The first line from position i on that the start pattern, or the end
\* pattern, matches; 0 if there is none.
StartFrom(lines, i) ==
    MinOrZero({ j \in i..Len(lines) : sub_start_r(lines[j]) })
EndFrom(lines, i) ==
    MinOrZero({ j \in i..Len(lines) : sub_end_r(lines[j]) })

\* The blocks of a log from position i on, read while Outside: the next
\* line the start pattern matches opens a block, the next end line after
\* it closes it; the block is the lines after the opening line up to the
\* end line, under the number of the opening line.
RECURSIVE BlocksFrom(_, _)
BlocksFrom(lines, i) ==
    LET s == StartFrom(lines, i)
        e == EndFrom(lines, s + 1)
    IN IF s = 0 \/ e = 0 THEN << >>
       ELSE << << lines[s].a[1], SubSeq(lines, s + 1, e) >> >>
            \o BlocksFrom(lines, e + 1)

\* C14: the blocks of a log are those that a line matching the start
\* pattern, read while Outside, opens and an end line closes, in the order
\* of the file and under the number of the opening line; other lines read
\* while Outside and a block open at the end of the file give nothing; a
\* log without such a block has an empty plan.
C14_Segmenter ==
    /\ Subs(log) = BlocksFrom(log, 1)
    /\ Planned =>
        /\ todo = TodosOf(BlocksFrom(log, 1))
        /\ BlocksFrom(log, 1) = << >> => todo = << >>

\* A log of a whole block and a block that is not ended.
C14_Witness ==
    /\ Planned
    /\ Len(BlocksFrom(log, 1)) = 1
    /\ log[Len(log)].k # "end"
    /\ Starts(log) = 2
    /\ todo # << >>

\* The document source lines of a text by the ending of the path.
SourceLines(txt, ending) ==
    { i \in DOMAIN txt : txt[i].k = "docsrc" /\ EndsWith(txt[i].a, ending) }

\* The source type of a block: pdf before html.gz before any other .gz.
ChosenSource(txt) ==
    IF SourceLines(txt, <<".pdf">>) # {} THEN <<".pdf">>
    ELSE IF SourceLines(txt, <<".html", ".gz">>) # {} THEN <<".html", ".gz">>
    ELSE IF SourceLines(txt, <<".gz">>) # {} THEN <<".gz">>
    ELSE << >>

\* The path of the first source line of the chosen type.
ChosenPath(txt) ==
    txt[MinOrZero(SourceLines(txt, ChosenSource(txt)))].a

HasLine(txt, k) == \E i \in DOMAIN txt : txt[i].k = k

\* A block that is handled as a new submission or as a replacement.
IsNew(txt) == ~HasTestMarker(txt) /\ new_r(txt) # 0
IsRep(txt) == ~HasTestMarker(txt) /\ new_r(txt) = 0 /\ rep_r(txt) # 0

Uploads == { i \in DOMAIN todo : todo[i][4] = "upload" }
Builds == { i \in DOMAIN todo : todo[i][4] = "build+upload" }
LastOf(S) == CHOOSE i \in S : \A j \in S : j <= i

\* The plan of a log of one block, for the text of the block.
C11_For(txt) ==
    /\ Cardinality(Builds) = (IF ChosenSource(txt) = <<".gz">> THEN 1 ELSE 0)
    /\ Cardinality(Uploads) =
          (IF IsRep(txt) THEN Cardinality({ i \in DOMAIN txt : txt[i].k = "moved" })
           ELSE 0)
        + (IF HasLine(txt, "absfile") THEN 1 ELSE 0)
        + (IF ChosenSource(txt) # << >> THEN 1 ELSE 0)
    /\ ChosenSource(txt) # << >> => todo[LastOf(Uploads)][5] = ChosenPath(txt)
    /\ Builds # {} => \A i \in Uploads, j \in Builds : i < j

\* C11: a new or replacement block gives exactly one source upload, of the
\* type chosen in the order pdf, html.gz, other .gz (a .html.gz line
\* counts as html), and one "build+upload" action exactly when the type is
\* the other .gz; without a source line it gives neither, and the abstract
\* upload still is there.
C11_SourcePriority ==
    (Planned /\ Len(Subs(log)) = 1
        /\ (IsNew(Subs(log)[1][2]) \/ IsRep(Subs(log)[1][2])))
    => C11_For(Subs(log)[1][2])

\* A new submission with a .tar.gz line before a .pdf line.
C11_Witness ==
    /\ Planned
    /\ Len(Subs(log)) = 1
    /\ IsNew(Subs(log)[1][2])
    /\ SourceLines(Subs(log)[1][2], <<".pdf">>) # {}
    /\ \E i \in SourceLines(Subs(log)[1][2], <<".tar", ".gz">>) :
        \A j \in SourceLines(Subs(log)[1][2], <<".pdf">>) : i < j
    /\ Len(todo) = 1
    /\ todo[1][5] = PdfPath

\* C12: every action of the plan of a log has a target that is not empty,
\* also those made from the path of an absfile line, of a document source
\* line, and from the destination of a moved line.
C12_NonEmptyTargets ==
    Planned => \A i \in DOMAIN todo : todo[i][5] # NoText

\* The kind of a block: the first marker, in the order of the planner,
\* that its text has; "" when it has none.
KindOf(txt) ==
    IF HasLine(txt, "test") THEN "test"
    ELSE IF HasLine(txt, "newsub") THEN "new"
    ELSE IF HasLine(txt, "replfor") THEN "rep"
    ELSE IF HasLine(txt, "wdrof") THEN "wdr"
    ELSE IF HasLine(txt, "cross") THEN "cross"
    ELSE IF HasLine(txt, "jref") THEN "jref"
    ELSE ""

\* C16: a block is handled as the first kind, in the order test, new,
\* replacement, withdrawal, cross, journal ref, whose marker it has: all
\* its actions have that one kind, and a test block or a block without a
\* marker has no action.
C16_FirstMarkerWins ==
    (Planned /\ Len(Subs(log)) = 1) =>
        /\ \A i \in DOMAIN todo : todo[i][2] = KindOf(Subs(log)[1][2])
        /\ KindOf(Subs(log)[1][2]) \in {"test", ""} => todo = << >>
        /\ KindOf(Subs(log)[1][2]) \in {"cross", "jref"} => Len(todo) = 1

\* A block with the replacement marker before the new submission marker
\* and a .tar.gz source.
C16_Witness ==
    /\ Planned
    /\ Len(Subs(log)) = 1
    /\ \E i, j \in DOMAIN Subs(log)[1][2] :
        /\ i < j
        /\ Subs(log)[1][2][i].k = "replfor"
        /\ Subs(log)[1][2][j].k = "newsub"
    /\ Len(todo) = 2
    /\ \A i \in DOMAIN todo : todo[i][2] = "new"

\* The moved lines of a text and the k-th of them.
MovedLines(txt) == { i \in DOMAIN txt : txt[i].k = "moved" }
MovedLine(txt, k) ==
    CHOOSE i \in MovedLines(txt) :
        Cardinality({ j \in MovedLines(txt) : j < i }) = k - 1

\* The plan of a log of one replacement or withdrawal block: first the
\* uploads of the moved lines in their order, then the abstract, then the
\* source.
C17_For(txt) ==
    LET n == Cardinality(MovedLines(txt))
        abs == IF HasLine(txt, "absfile") THEN 1 ELSE 0
        src == IF ChosenSource(txt) # << >> THEN 1 ELSE 0
        build == IF IsRep(txt) /\ ChosenSource(txt) = <<".gz">> THEN 1 ELSE 0
    IN /\ Len(todo) = n + abs + src + build
       /\ \A k \in 1..n :
            /\ todo[k][4] = "upload"
            /\ todo[k][5] = txt[MovedLine(txt, k)].b
       /\ abs = 1 =>
            todo[n + 1][5] = txt[MinOrZero({ i \in DOMAIN txt : txt[i].k = "absfile" })].a
       /\ src = 1 => todo[n + abs + 1][5] = ChosenPath(txt)
       /\ build = 1 => todo[n + abs + 2][4] = "build+upload"

\* C17: in the actions of a replacement or withdrawal block the uploads of
\* the moved lines come first, one for each moved line in the order of the
\* lines, before the abstract upload and the source actions.
C17_MovedFirst ==
    (Planned /\ Len(Subs(log)) = 1
        /\ (IsRep(Subs(log)[1][2]) \/ IsWdr(Subs(log)[1][2])))
    => C17_For(Subs(log)[1][2])

\* A replacement with an absfile line before two moved lines with
\* different destinations.
C17_Witness ==
    /\ Planned
    /\ Len(Subs(log)) = 1
    /\ IsRep(Subs(log)[1][2])
    /\ Len(todo) = 2
    /\ todo[1][5] = PdfPath
    /\ todo[2][5] = AbsPath
    /\ Cardinality(MovedLines(Subs(log)[1][2])) = 2

\* C15: in a run without a signal, every follow-on upload job that a build
\* thread put after ensure_pdf did not fail is taken by an upload thread
\* and gets a row of the upload stage: once every thread has exited, no
\* ensure_pdf row that is not "failed" is without the row of its follow-on
\* job.
C15_FollowOnUploaded ==
    (~signalled /\ Joined) =>
        \A r \in BagToSet(summary_q) :
            (r.stage = "ensure_pdf" /\ r.status # "failed") =>
                \E u \in BagToSet(summary_q) :
                    u.jid = Len(todo) + r.jid /\ u.stage = "upload"

\* C18: once a signal has set RUN to False no thread takes another job
\* from build_pdf_q or upload_q: no step after the signal adds to the jobs
\* taken or shortens a queue.
C18_NoGetAfterSignal ==
    [][signalled =>
        /\ taken' = taken
        /\ Len(build_pdf_q') >= Len(build_pdf_q)
        /\ Len(upload_q') >= Len(upload_q)]_vars

\* q holds, in the order of todo, exactly the items of todo with the given
\* action.
IsRoute(q, action) ==
    /\ \A i \in DOMAIN q :
        /\ q[i].jid \in DOMAIN todo
        /\ q[i].t = todo[q[i].jid]
        /\ q[i].t[4] = action
    /\ \A i, j \in DOMAIN q : i < j => q[i].jid < q[j].jid
    /\ \A k \in DOMAIN todo : todo[k][4] = action => \E i \in DOMAIN q : q[i].jid = k

\* C19: enqueue_todos puts every "upload" item on upload_q and every
\* "build+upload" item on build_pdf_q, both in the order of the list, puts
\* no item on both, drops the items of any other action and leaves
\* summary_q as it was.
C19_Routing ==
    [][(mainpc = "enqueue" /\ mainpc' # "enqueue") =>
        /\ IsRoute(upload_q', "upload")
        /\ IsRoute(build_pdf_q', "build+upload")
        /\ \A i \in DOMAIN upload_q', j \in DOMAIN build_pdf_q' :
            upload_q'[i].jid # build_pdf_q'[j].jid
        /\ Len(upload_q') + Len(build_pdf_q')
            = Cardinality({ k \in DOMAIN todo : todo[k][4] \in {"upload", "build+upload"} })
        /\ summary_q' = summary_q
        /\ todo' = todo]_vars

\* A list with an item of each action has been routed, summary_q holding a
\* row.
C19_Witness ==
    /\ mainpc = "start_pdf"
    /\ Len(todo) = 3
    /\ { todo[k][4] : k \in DOMAIN todo } = RouteActions
    /\ Len(upload_q) = 1
    /\ Len(build_pdf_q) = 1
    /\ summary_q # EmptyBag

\* C20: two upload jobs of one target, the bucket at first holding no
\* object under the key, run by the upload threads in any interleaving
\* and without a failure, make at most one transfer to the key, and the
\* job that does not transfer reports "already_on_gs".
C20_AtMostOneTransfer ==
    (faults = 0 /\ FirstRan /\ SecondRan) =>
        /\ CopiesIn(TwiceKey, sent) <= 1
        /\ \E jid \in {1, 2} : RowOf(jid).status = "already_on_gs"

=============================================================================
